---- MODULE Spec2Model ----
(***************************************************************************)
(* Model of ec2-runner/analyze_cloudtrail_events.py: main() fetches three  *)
(* CloudTrail event collections (fetch_events), stores them in files and   *)
(* analyze() joins them: extract_run_instances_data,                       *)
(* find_assume_role_events, find_get_parameter_events and the correlation  *)
(* loop that flags instances.                                              *)
(*                                                                         *)
(* Strings that the code searches (tenant identifiers, parameter names)    *)
(* are sequences of letters, so that Python's `in` is a real substring     *)
(* test.  A loop `for event in events` is modelled one iteration per       *)
(* step; the variable events holds the part of the list iterated so far    *)
(* and the next record is drawn from the record universe of the loop.      *)
(***************************************************************************)
EXTENDS Integers, Sequences, FiniteSets, TLC

\* ------------------------------------------------------------------ bounds
MaxLaunchEvents == 2
MaxAssumeEvents == 1
MaxParamEvents == 2
MaxNameLen == 2
MaxPages == 3
MaxPageEvents == 2
MaxThrottle == 2

\* ------------------------------------------------------------- JSON values
Null == "null"
Absent == "absent"
Object == "object"

Alphabet == {"a", "b"}
Strings(n) == UNION {[1..k -> Alphabet] : k \in 1..n}
TenantIds == {<<"a">>, <<"b">>, <<"a", "b">>}
Names == Strings(MaxNameLen)
EmptyString == <<>>
InstanceIds == {"i-1", "i-2"}
Arns == {"r1", "r2"}
OtherArn == "r-other"
SessionTokens == {"s1"}
AccessKeyIds == {"k1", "k2"}

TAG_KEY == "gitpod.dev/environment-id"
OtherTagKey == "Name"

GET_PARAMETER_FILE == "get_parameter_events.json"
RUN_INSTANCES_FILE == "run_instances_events.json"
ASSUME_ROLE_FILE == "assume_role_events.json"
EVENT_TYPES == << [name |-> "GetParameter", file |-> GET_PARAMETER_FILE],
                  [name |-> "RunInstances", file |-> RUN_INSTANCES_FILE],
                  [name |-> "AssumeRole", file |-> ASSUME_ROLE_FILE] >>
Files == {EVENT_TYPES[i].file : i \in 1..Len(EVENT_TYPES)}

\* Python's `s in t` on strings.
IsSubstring(s, t) ==
    \E i \in 1..(Len(t) - Len(s) + 1) : SubSeq(t, i, i + Len(s) - 1) = s

VARIABLES
    pc,               \* position in main() / analyze() / fetch_events()
    outcome,          \* what the run reported, or the exception it died of
    files,            \* file system: per event file absent / empty / nonempty
    type_idx,         \* position of main()'s loop over EVENT_TYPES
    pages,            \* CloudTrail's pages for the lookup in progress
    events,           \* fetch_events: accumulated events; extractors: records iterated so far
    next_token,       \* fetch_events: next_token
    page_number,      \* fetch_events: page_number
    response,         \* fetch_events: last response
    throttles,        \* number of ThrottlingExceptions so far (capped)
    instance_data,    \* dict instance id -> (profile_arn, environment_id), insertion ordered
    profile_arns,     \* analyze(): set of profile ARNs
    environment_ids,  \* analyze(): set of environment ids
    assume_role_data, \* dict session token -> access key id
    parameter_data,   \* defaultdict environment id -> list of parameter names
    inst_idx,         \* position of the correlation loop in instance_data.items()
    count,            \* analyze(): count
    report            \* analyze(): the instances printed, in order

vars == << pc, outcome, files, type_idx, pages, events, next_token, page_number,
           response, throttles, instance_data, profile_arns, environment_ids,
           assume_role_data, parameter_data, inst_idx, count, report >>

fetchVars == << pages, events, next_token, page_number, response, throttles >>
analyzeVars == << instance_data, profile_arns, environment_ids, assume_role_data,
                  parameter_data, inst_idx, count, report >>

EmptyDict == [k \in {} |-> Null]

\* ------------------------------------------------------------ fetch_events
\* A page of the store: n events, or a response without the 'Events' key.
PageShapes == {[has_events |-> FALSE, n |-> 0]}
                \cup {[has_events |-> TRUE, n |-> k] : k \in 0..MaxPageEvents}
PageLists == UNION {[1..n -> PageShapes] : n \in 1..MaxPages}
PageEvents(i, p) == [k \in 1..p.n |-> <<i, k>>]

\* next_token: None is the empty sequence, the token of page i is <<i>>.
NoToken == <<>>
NoResponse == [has_events |-> FALSE, Events |-> <<>>, NextToken |-> NoToken]

\* cloudtrail_client.lookup_events(**params): the page the token names, and the
\* token of the page after it when there is one.
LookupEvents(ps, token) ==
    LET i == IF token = NoToken THEN 1 ELSE token[1]
    IN [has_events |-> ps[i].has_events,
        Events |-> PageEvents(i, ps[i]),
        NextToken |-> IF i < Len(ps) THEN <<i + 1>> ELSE NoToken]

RECURSIVE ConcatPages(_, _)
ConcatPages(ps, n) ==
    IF n = 0 THEN <<>> ELSE ConcatPages(ps, n - 1) \o PageEvents(n, ps[n])

\* events.extend(response['Events']) when the key is there (lines 91-93).
ExtendEvents(evs, r) == IF r.has_events THEN evs \o r.Events ELSE evs

\* One successful iteration of the while loop (lines 70-101).
FetchPage ==
    /\ pc = "fetch"
    /\ LET r == LookupEvents(pages, next_token)
       IN /\ response' = r
          /\ events' = ExtendEvents(events, r)
          /\ next_token' = r.NextToken
          /\ IF r.NextToken = NoToken
                THEN pc' = "fetched" /\ page_number' = page_number
                ELSE pc' = "fetch" /\ page_number' = page_number + 1
    /\ UNCHANGED << outcome, files, type_idx, pages, throttles >>
    /\ UNCHANGED analyzeVars

\* The token a throttled request is retried with.
ThrottledTokenReset(token) == NoToken
ThrottledToken(token) == token

\* lookup_events raises ThrottlingException: sleep and retry (lines 103-107).
FetchThrottled ==
    /\ pc = "fetch"
    /\ throttles < MaxThrottle
    /\ throttles' = throttles + 1
    /\ next_token' = ThrottledToken(next_token)
    /\ UNCHANGED << pc, outcome, files, type_idx, pages, events, page_number, response >>
    /\ UNCHANGED analyzeVars

\* lookup_events raises anything else: re-raised (lines 108-113).
FetchError ==
    /\ pc = "fetch"
    /\ \E e \in {"ClientError", "Exception"} : outcome' = e
    /\ pc' = "raised"
    /\ UNCHANGED << files, type_idx >>
    /\ UNCHANGED fetchVars
    /\ UNCHANGED analyzeVars

\* State of the analysis before analyze() has run.
AnalyzeInit ==
    /\ instance_data = <<>>
    /\ profile_arns = {}
    /\ environment_ids = {}
    /\ assume_role_data = EmptyDict
    /\ parameter_data = EmptyDict
    /\ inst_idx = 0
    /\ count = 0
    /\ report = <<>>

\* fetch_events entered (lines 65-67) against a store of some pages.
InitFetch ==
    /\ pc = "fetch"
    /\ outcome = "none"
    /\ files = [f \in Files |-> Absent]
    /\ type_idx = 1
    /\ pages \in PageLists
    /\ events = <<>>
    /\ next_token = NoToken
    /\ page_number = 1
    /\ response = NoResponse
    /\ throttles = 0
    /\ AnalyzeInit

NextFetch == FetchPage \/ FetchThrottled \/ FetchError
SpecFetch == InitFetch /\ [][NextFetch]_vars

\* C10: while fetch_events runs, events holds the pages before page_number, each
\* once and in order, and the request in hand asks for page page_number; it
\* returns exactly on a response without NextToken, and then events is the
\* concatenation of all pages; after any other error nothing is returned.
C10_FetchAllPagesOnce ==
    /\ pc = "fetch" =>
          /\ page_number \in 1..Len(pages)
          /\ events = ConcatPages(pages, page_number - 1)
          /\ next_token = (IF page_number = 1 THEN NoToken ELSE <<page_number>>)
    /\ pc = "fetched" =>
          /\ response.NextToken = NoToken
          /\ page_number = Len(pages)
          /\ events = ConcatPages(pages, Len(pages))
    /\ pc = "raised" => outcome \in {"ClientError", "Exception"}

\* A fetch of several pages, throttled after the first page, has returned.
C10_Witness ==
    /\ pc = "fetched"
    /\ throttles > 0
    /\ Len(pages) > 1
    /\ Len(events) > 1

\* ------------------------------------------------ extract_run_instances_data
\* A RunInstances record.  shape says how far the record is well formed:
\*   noCloudTrailEvent   event['CloudTrailEvent'] raises KeyError
\*   undecodable         json.loads raises JSONDecodeError
\*   noResponseElements  responseElements absent or null (a failed launch)
\*   noInstancesSet, noItems, emptyItem   the defensive checks of lines 156-162
\*   instance            items[0] is an instance with the fields below
Tag(k, hv, v) == [key |-> k, has_value |-> hv, value |-> v]
EnvTag(t) == Tag(TAG_KEY, TRUE, t)
OtherTag == Tag(OtherTagKey, TRUE, <<"b">>)
LaunchRec(sh, id, prof, a, ts, tg) ==
    [shape |-> sh, instanceId |-> id, iamInstanceProfile |-> prof, arn |-> a,
     tagSet |-> ts, tags |-> tg]

\* The instance profile each instance is launched with.
ProfileOf == [i \in InstanceIds |-> IF i = "i-1" THEN "r1" ELSE "r2"]
MalformedLaunchShapes ==
    {"noCloudTrailEvent", "undecodable", "noResponseElements", "noInstancesSet",
     "noItems", "emptyItem"}
TagVariants ==
    { <<>>, <<OtherTag>>, <<OtherTag, EnvTag(<<"b">>)>>,
      <<EnvTag(<<"a">>), EnvTag(<<"b">>)>>,
      <<Tag(TAG_KEY, FALSE, EmptyString)>>,
      <<Tag(TAG_KEY, TRUE, EmptyString), EnvTag(<<"a">>)>> }
RunInstancesRecords ==
    {LaunchRec(sh, Null, Null, Null, Absent, <<>>) : sh \in MalformedLaunchShapes}
    \cup {LaunchRec("instance", i, Object, ProfileOf[i], Object, <<EnvTag(t)>>) :
             i \in InstanceIds, t \in TenantIds}
    \cup {LaunchRec("instance", i, Null, Null, Object, <<EnvTag(<<"a">>)>>) : i \in InstanceIds}
    \cup {LaunchRec("instance", i, Object, Null, Object, <<EnvTag(<<"a">>)>>) : i \in InstanceIds}
    \cup {LaunchRec("instance", Null, Object, "r1", Object, <<EnvTag(<<"a">>)>>)}
    \cup {LaunchRec("instance", "i-1", Object, "r1", Object, tg) : tg \in TagVariants}
    \cup {LaunchRec("instance", "i-1", Object, "r1", ts, <<>>) : ts \in {Absent, Null}}

\* Index of the first tag with the environment-id key, 0 when there is none
\* (the generator handed to next(), line 181).
LastEnvTag(tags) ==
    LET hits == {k \in 1..Len(tags) : tags[k].key = TAG_KEY}
    IN IF hits = {} THEN 0 ELSE CHOOSE k \in hits : \A j \in hits : k >= j
FirstEnvTag(tags) ==
    LET hits == {k \in 1..Len(tags) : tags[k].key = TAG_KEY}
    IN IF hits = {} THEN 0 ELSE CHOOSE k \in hits : \A j \in hits : k <= j

Continue == [result |-> "continue", instance_id |-> Null, profile_arn |-> Null,
             environment_id |-> EmptyString]

\* The body of the for loop for one event (lines 147-190).
ExtractRunInstance(event) ==
    IF event.shape # "instance" THEN Continue
    ELSE IF event.instanceId = Null THEN Continue
    ELSE IF event.iamInstanceProfile = Null THEN Continue
    ELSE IF event.tagSet = Null
        THEN [Continue EXCEPT !.result = "AttributeError"]
    ELSE LET tags == IF event.tagSet = Absent THEN <<>> ELSE event.tags
             k == FirstEnvTag(tags)
         IN IF k = 0 THEN Continue
            ELSE IF ~tags[k].has_value THEN Continue
            ELSE IF event.arn # Null /\ tags[k].value # EmptyString
                THEN [result |-> "store", instance_id |-> event.instanceId,
                      profile_arn |-> event.arn, environment_id |-> tags[k].value]
            ELSE Continue

\* instance_data[instance_id] = (profile_arn, environment_id) on a Python dict:
\* a known key keeps its place, a new key goes last.
DictKeys(d) == {d[i].instance_id : i \in 1..Len(d)}
DictSetKeepFirst(d, e) ==
    IF e.instance_id \in DictKeys(d) THEN d ELSE Append(d, e)
DictSet(d, e) ==
    IF e.instance_id \in DictKeys(d)
        THEN [i \in 1..Len(d) |-> IF d[i].instance_id = e.instance_id THEN e ELSE d[i]]
        ELSE Append(d, e)

Entry(r) == [instance_id |-> r.instance_id, profile_arn |-> r.profile_arn,
             environment_id |-> r.environment_id]

\* One iteration of `for event in events` of extract_run_instances_data.
ExtractStep ==
    /\ pc = "extract"
    /\ files[RUN_INSTANCES_FILE] = "nonempty"
    /\ Len(events) < MaxLaunchEvents
    /\ \E event \in RunInstancesRecords :
          LET r == ExtractRunInstance(event)
          IN /\ events' = Append(events, event)
             /\ instance_data' = IF r.result = "store"
                                    THEN DictSet(instance_data, Entry(r))
                                    ELSE instance_data
             /\ IF r.result = "AttributeError"
                   THEN pc' = "raised" /\ outcome' = "AttributeError"
                   ELSE pc' = "extract" /\ outcome' = outcome
    /\ UNCHANGED << files, type_idx, pages, next_token, page_number, response, throttles >>
    /\ UNCHANGED << profile_arns, environment_ids, assume_role_data, parameter_data,
                    inst_idx, count, report >>

\* extract_run_instances_data returns; analyze() builds the two sets (lines 254-262).
ExtractReturn ==
    /\ pc = "extract"
    /\ files[RUN_INSTANCES_FILE] = "nonempty" => Len(events) >= 1
    /\ profile_arns' = {instance_data[i].profile_arn : i \in 1..Len(instance_data)}
    /\ environment_ids' = {instance_data[i].environment_id : i \in 1..Len(instance_data)}
    /\ events' = <<>>
    /\ pc' = "assume"
    /\ UNCHANGED << outcome, files, type_idx, pages, next_token, page_number, response,
                    throttles >>
    /\ UNCHANGED << instance_data, assume_role_data, parameter_data, inst_idx, count,
                    report >>

\* --------------------------------------------------- find_assume_role_events
\* An AssumeRole record.  shape: noCloudTrailEvent, undecodable or event; the
\* fields of an event are Absent (key missing), Null (JSON null) or present.
AssumeRec(sh, en, rp, ra, re, cr, st, ak) ==
    [shape |-> sh, eventName |-> en, requestParameters |-> rp, roleArn |-> ra,
     responseElements |-> re, credentials |-> cr, sessionToken |-> st,
     accessKeyId |-> ak]

AssumeRoleRecords ==
    {AssumeRec("event", "AssumeRole", Object, ra, Object, Object, st, ak) :
        ra \in Arns \cup {OtherArn}, st \in SessionTokens, ak \in AccessKeyIds}
    \cup {AssumeRec(sh, Absent, Absent, Absent, Absent, Absent, Absent, Absent) :
             sh \in {"noCloudTrailEvent", "undecodable"}}
    \cup {AssumeRec("event", en, Object, "r1", Object, Object, "s1", "k1") :
             en \in {Absent, "Other"}}
    \cup {AssumeRec("event", "AssumeRole", rp, Absent, Object, Object, "s1", "k1") :
             rp \in {Absent, Null, Object}}
    \cup {AssumeRec("event", "AssumeRole", Object, "r1", re, Absent, Absent, Absent) :
             re \in {Absent, Null}}
    \cup {AssumeRec("event", "AssumeRole", Object, "r1", Object, cr, Absent, Absent) :
             cr \in {Absent, Null}}
    \cup {AssumeRec("event", "AssumeRole", Object, "r1", Object, Object, Absent, "k1"),
          AssumeRec("event", "AssumeRole", Object, "r1", Object, Object, "s1", Absent)}

NoAssume == [result |-> "continue", session_id |-> Null, access_key_id |-> Null]

\* The body of the for loop for one event (lines 202-215): KeyError and
\* JSONDecodeError are caught, subscripting None raises TypeError.
FindAssumeRole(event, arns) ==
    IF event.shape # "event" THEN NoAssume
    ELSE IF event.eventName = Absent THEN NoAssume
    ELSE IF event.eventName # "AssumeRole" THEN NoAssume
    ELSE IF event.requestParameters = Absent THEN NoAssume
    ELSE IF event.requestParameters = Null THEN [NoAssume EXCEPT !.result = "TypeError"]
    ELSE IF event.roleArn = Absent THEN NoAssume
    ELSE IF event.roleArn \notin arns THEN NoAssume
    ELSE IF event.responseElements = Absent THEN NoAssume
    ELSE IF event.responseElements = Null THEN [NoAssume EXCEPT !.result = "TypeError"]
    ELSE IF event.credentials = Absent THEN NoAssume
    ELSE IF event.credentials = Null THEN [NoAssume EXCEPT !.result = "TypeError"]
    ELSE IF event.sessionToken = Absent THEN NoAssume
    ELSE IF event.accessKeyId = Absent THEN NoAssume
    ELSE [result |-> "store", session_id |-> event.sessionToken,
          access_key_id |-> event.accessKeyId]

\* assume_role_data[session_id] = access_key_id
MapSet(d, k, v) == [x \in DOMAIN d \cup {k} |-> IF x = k THEN v ELSE d[x]]

\* One iteration of `for event in events` of find_assume_role_events.
AssumeStep ==
    /\ pc = "assume"
    /\ files[ASSUME_ROLE_FILE] = "nonempty"
    /\ Len(events) < MaxAssumeEvents
    /\ \E event \in AssumeRoleRecords :
          LET r == FindAssumeRole(event, profile_arns)
          IN /\ events' = Append(events, event)
             /\ assume_role_data' = IF r.result = "store"
                                       THEN MapSet(assume_role_data, r.session_id,
                                                   r.access_key_id)
                                       ELSE assume_role_data
             /\ IF r.result = "TypeError"
                   THEN pc' = "raised" /\ outcome' = "TypeError"
                   ELSE pc' = "assume" /\ outcome' = outcome
    /\ UNCHANGED << files, type_idx, pages, next_token, page_number, response, throttles >>
    /\ UNCHANGED << instance_data, profile_arns, environment_ids, parameter_data,
                    inst_idx, count, report >>

\* find_assume_role_events returns (line 217).
AssumeReturn ==
    /\ pc = "assume"
    /\ files[ASSUME_ROLE_FILE] = "nonempty" => Len(events) >= 1
    /\ events' = <<>>
    /\ pc' = "getparam"
    /\ UNCHANGED << outcome, files, type_idx, pages, next_token, page_number, response,
                    throttles >>
    /\ UNCHANGED analyzeVars

\* ------------------------------------------------- find_get_parameter_events
GetParamRec(sh, en, rp, hn, nm) ==
    [shape |-> sh, eventName |-> en, requestParameters |-> rp, has_name |-> hn,
     name |-> nm]

GetParameterRecords ==
    {GetParamRec("event", "GetParameter", Object, TRUE, nm) : nm \in Names}
    \cup {GetParamRec(sh, Absent, Absent, FALSE, EmptyString) :
             sh \in {"noCloudTrailEvent", "undecodable"}}
    \cup {GetParamRec("event", "Other", Object, TRUE, <<"a">>)}
    \cup {GetParamRec("event", "GetParameter", rp, FALSE, EmptyString) :
             rp \in {Null, Object}}

NoParam == [result |-> "continue", name |-> EmptyString, env_ids |-> {}]

\* The environment ids a parameter name is filed under (lines 234-236).
MatchAll(ids, name) == ids
Matching(ids, name) == {env_id \in ids : IsSubstring(env_id, name)}

\* The body of the for loop for one event (lines 227-240).
FindGetParameter(event, ids) ==
    IF event.shape # "event" THEN NoParam
    ELSE IF event.eventName = Absent THEN NoParam
    ELSE IF event.eventName # "GetParameter" THEN NoParam
    ELSE IF event.requestParameters = Absent THEN NoParam
    ELSE IF event.requestParameters = Null THEN [NoParam EXCEPT !.result = "TypeError"]
    ELSE IF ~event.has_name THEN NoParam
    ELSE [result |-> "append", name |-> event.name,
          env_ids |-> Matching(ids, event.name)]

\* parameter_data[env_id].append(parameter_name) on a defaultdict(list), for
\* every env_id of ids.
AppendFront(d, ids, name) ==
    [t \in DOMAIN d \cup ids |->
        IF t \in ids THEN (IF t \in DOMAIN d THEN <<name>> \o d[t] ELSE <<name>>)
        ELSE d[t]]
AppendAll(d, ids, name) ==
    [t \in DOMAIN d \cup ids |->
        IF t \in ids THEN (IF t \in DOMAIN d THEN Append(d[t], name) ELSE <<name>>)
        ELSE d[t]]

\* One iteration of `for event in events` of find_get_parameter_events.
GetParamStep ==
    /\ pc = "getparam"
    /\ files[GET_PARAMETER_FILE] = "nonempty"
    /\ Len(events) < MaxParamEvents
    /\ \E event \in GetParameterRecords :
          LET r == FindGetParameter(event, environment_ids)
          IN /\ events' = Append(events, event)
             /\ parameter_data' = IF r.result = "append"
                                     THEN AppendAll(parameter_data, r.env_ids, r.name)
                                     ELSE parameter_data
             /\ IF r.result = "TypeError"
                   THEN pc' = "raised" /\ outcome' = "TypeError"
                   ELSE pc' = "getparam" /\ outcome' = outcome
    /\ UNCHANGED << files, type_idx, pages, next_token, page_number, response, throttles >>
    /\ UNCHANGED << instance_data, profile_arns, environment_ids, assume_role_data,
                    inst_idx, count, report >>

\* find_get_parameter_events returns; the correlation loop is set up (lines 242, 274).
GetParamReturn ==
    /\ pc = "getparam"
    /\ files[GET_PARAMETER_FILE] = "nonempty" => Len(events) >= 1
    /\ pc' = "correlate"
    /\ inst_idx' = 1
    /\ count' = 0
    /\ UNCHANGED << outcome, files, type_idx, events >>
    /\ UNCHANGED << pages, next_token, page_number, response, throttles >>
    /\ UNCHANGED << instance_data, profile_arns, environment_ids, assume_role_data,
                    parameter_data, report >>

\* ------------------------------------------------------ analyze(): the report
\* has_mismatch of lines 281-283.
HasMismatchAnyId(param_names, environment_id, ids) ==
    \E i \in 1..Len(param_names) : \E env_id \in ids :
        IsSubstring(env_id, param_names[i])
HasMismatch(param_names, environment_id, ids) ==
    \E i \in 1..Len(param_names) : \E env_id \in ids :
        IsSubstring(env_id, param_names[i]) /\ env_id # environment_id

\* One iteration of the loop over instance_data.items() (lines 275-291).
CorrelateStep ==
    /\ pc = "correlate"
    /\ inst_idx <= Len(instance_data)
    /\ LET e == instance_data[inst_idx]
           flagged == /\ e.environment_id \in DOMAIN parameter_data
                      /\ HasMismatch(parameter_data[e.environment_id],
                                     e.environment_id, environment_ids)
       IN IF flagged
             THEN /\ count' = count + 1
                  /\ report' = Append(report,
                        [instance_id |-> e.instance_id, profile_arn |-> e.profile_arn,
                         environment_id |-> e.environment_id,
                         names |-> parameter_data[e.environment_id]])
             ELSE UNCHANGED << count, report >>
    /\ inst_idx' = inst_idx + 1
    /\ UNCHANGED << pc, outcome, files, type_idx, events >>
    /\ UNCHANGED << pages, next_token, page_number, response, throttles >>
    /\ UNCHANGED << instance_data, profile_arns, environment_ids, assume_role_data,
                    parameter_data >>

\* The run-level message (lines 293-298).
VerdictAlwaysClean(c) == "NOT_EXPLOITED"
Verdict(c) == IF c = 0 THEN "NOT_EXPLOITED" ELSE "EXPLOITED"

CorrelateDone ==
    /\ pc = "correlate"
    /\ inst_idx > Len(instance_data)
    /\ outcome' = Verdict(count)
    /\ pc' = "done"
    /\ UNCHANGED << files, type_idx, events >>
    /\ UNCHANGED << pages, next_token, page_number, response, throttles >>
    /\ UNCHANGED analyzeVars

\* analyze() opens the three files (lines 247-249).
AnalyzeLoad ==
    /\ pc = "analyze"
    /\ IF \E f \in Files : files[f] = Absent
          THEN pc' = "raised" /\ outcome' = "FileNotFoundError"
          ELSE pc' = "extract" /\ outcome' = outcome
    /\ events' = <<>>
    /\ UNCHANGED << files, type_idx >>
    /\ UNCHANGED << pages, next_token, page_number, response, throttles >>
    /\ UNCHANGED analyzeVars

\* ------------------------------------------------------------------- main()
\* All three files exist: analyze at once (lines 306-309).
MainCached ==
    /\ pc = "main"
    /\ \A f \in Files : files[f] # Absent
    /\ pc' = "analyze"
    /\ UNCHANGED << outcome, files, type_idx >>
    /\ UNCHANGED fetchVars
    /\ UNCHANGED analyzeVars

\* Some file is missing: create_cloudtrail_client (lines 312, 42-50), which
\* raises without AWS_REGION or when boto3 fails.
MainCreateClient ==
    /\ pc = "main"
    /\ \E f \in Files : files[f] = Absent
    /\ \E client \in {"created", "ValueError", "Exception"} :
          IF client = "created"
             THEN pc' = "types" /\ outcome' = outcome
             ELSE pc' = "raised" /\ outcome' = client
    /\ type_idx' = 1
    /\ UNCHANGED files
    /\ UNCHANGED fetchVars
    /\ UNCHANGED analyzeVars

\* for event_name, filename in EVENT_TYPES.items(): the file exists (lines 321-323).
MainSkipType ==
    /\ pc = "types"
    /\ type_idx <= Len(EVENT_TYPES)
    /\ files[EVENT_TYPES[type_idx].file] # Absent
    /\ type_idx' = type_idx + 1
    /\ UNCHANGED << pc, outcome, files >>
    /\ UNCHANGED fetchVars
    /\ UNCHANGED analyzeVars

\* ... the file is missing: fetch_events is entered (lines 325-326, 65-67).
MainFetchType ==
    /\ pc = "types"
    /\ type_idx <= Len(EVENT_TYPES)
    /\ files[EVENT_TYPES[type_idx].file] = Absent
    /\ pages' \in PageLists
    /\ events' = <<>>
    /\ next_token' = NoToken
    /\ page_number' = 1
    /\ response' = NoResponse
    /\ throttles' = 0
    /\ pc' = "fetch"
    /\ UNCHANGED << outcome, files, type_idx >>
    /\ UNCHANGED analyzeVars

\* fetch_events has returned (lines 328-332): save a non-empty list, stop the run
\* on an empty one.  The frame of fetch_events is gone afterwards.
MainAfterFetch ==
    /\ pc = "fetched"
    /\ IF events # <<>>
          THEN \E saved \in {"saved", "IOError"} :
                  IF saved = "saved"
                     THEN /\ files' = [files EXCEPT ![EVENT_TYPES[type_idx].file] = "nonempty"]
                          /\ type_idx' = type_idx + 1
                          /\ pc' = "types"
                          /\ outcome' = outcome
                     ELSE /\ pc' = "raised"
                          /\ outcome' = "IOError"
                          /\ UNCHANGED << files, type_idx >>
          ELSE /\ outcome' = "NO_EVENTS"
               /\ pc' = "done"
               /\ UNCHANGED << files, type_idx >>
    /\ pages' = <<>>
    /\ events' = <<>>
    /\ next_token' = NoToken
    /\ page_number' = 1
    /\ response' = NoResponse
    /\ throttles' = 0
    /\ UNCHANGED analyzeVars

\* The loop over EVENT_TYPES is over: analyze() (line 334).
MainAnalyze ==
    /\ pc = "types"
    /\ type_idx > Len(EVENT_TYPES)
    /\ pc' = "analyze"
    /\ UNCHANGED << outcome, files, type_idx >>
    /\ UNCHANGED fetchVars
    /\ UNCHANGED analyzeVars

\* ----------------------------------------------------------- specifications
FetchIdle ==
    /\ pages = <<>>
    /\ events = <<>>
    /\ next_token = NoToken
    /\ page_number = 1
    /\ response = NoResponse
    /\ throttles = 0

FileStates == {Absent, "empty", "nonempty"}

\* main() is started on any state of the three files.
Init ==
    /\ pc = "main"
    /\ outcome = "none"
    /\ files \in [Files -> FileStates]
    /\ type_idx = 0
    /\ FetchIdle
    /\ AnalyzeInit

NextAnalyze ==
    \/ AnalyzeLoad
    \/ ExtractStep \/ ExtractReturn
    \/ AssumeStep \/ AssumeReturn
    \/ GetParamStep \/ GetParamReturn
    \/ CorrelateStep \/ CorrelateDone
Next ==
    \/ MainCached \/ MainCreateClient
    \/ MainSkipType \/ MainFetchType \/ MainAfterFetch \/ MainAnalyze
    \/ NextFetch
    \/ NextAnalyze
Spec == Init /\ [][Next]_vars

\* analyze() is entered with the three files on disk, each empty or not.
InitAnalyze ==
    /\ pc = "analyze"
    /\ outcome = "none"
    /\ files \in [Files -> {"empty", "nonempty"}]
    /\ type_idx = 0
    /\ FetchIdle
    /\ AnalyzeInit
SpecAnalyze == InitAnalyze /\ [][NextAnalyze]_vars

\* extract_run_instances_data is called on any list of records.
InitExtract ==
    /\ pc = "extract"
    /\ outcome = "none"
    /\ files \in [Files -> {"empty", "nonempty"}]
    /\ type_idx = 0
    /\ FetchIdle
    /\ AnalyzeInit
NextExtract == ExtractStep \/ ExtractReturn
SpecExtract == InitExtract /\ [][NextExtract]_vars

\* find_assume_role_events is called on any list of records and any set of ARNs.
InitAssume ==
    /\ pc = "assume"
    /\ outcome = "none"
    /\ files \in [Files -> {"empty", "nonempty"}]
    /\ type_idx = 0
    /\ FetchIdle
    /\ instance_data = <<>>
    /\ profile_arns \in SUBSET Arns
    /\ environment_ids = {}
    /\ assume_role_data = EmptyDict
    /\ parameter_data = EmptyDict
    /\ inst_idx = 0
    /\ count = 0
    /\ report = <<>>
NextAssume == AssumeStep \/ AssumeReturn
SpecAssume == InitAssume /\ [][NextAssume]_vars

\* find_get_parameter_events is called on any list of records and any set of
\* environment ids.
InitIndex ==
    /\ pc = "getparam"
    /\ outcome = "none"
    /\ files \in [Files -> {"empty", "nonempty"}]
    /\ type_idx = 0
    /\ FetchIdle
    /\ instance_data = <<>>
    /\ profile_arns = {}
    /\ environment_ids \in SUBSET TenantIds
    /\ assume_role_data = EmptyDict
    /\ parameter_data = EmptyDict
    /\ inst_idx = 0
    /\ count = 0
    /\ report = <<>>
NextIndex == GetParamStep \/ GetParamReturn
SpecIndex == InitIndex /\ [][NextIndex]_vars

\* ------------------------------------------------------------------- claims
\* The index list of tenant t (a defaultdict has no key for an empty list).
IndexList(t) == IF t \in DOMAIN parameter_data THEN parameter_data[t] ELSE <<>>
Reported == {report[j].instance_id : j \in 1..Len(report)}
\* Some name of t's index list contains a tenant identifier of interest other than t.
ReadsForeignName(t) ==
    \E k \in 1..Len(IndexList(t)) : \E u \in environment_ids :
        u # t /\ IsSubstring(u, IndexList(t)[k])

\* C1: in the correlation step an instance the loop has visited is reported if
\* and only if a name of its tenant's index list contains another tenant
\* identifier of interest; an instance whose tenant has no index entry, or that
\* the loop has not visited, is not reported.
C1_FlaggedIffForeignName ==
    pc \in {"correlate", "done"} =>
        \A i \in 1..Len(instance_data) :
            LET e == instance_data[i]
            IN /\ (e.instance_id \in Reported) <=>
                      (i < inst_idx /\ ReadsForeignName(e.environment_id))
               /\ e.environment_id \notin DOMAIN parameter_data =>
                      e.instance_id \notin Reported

\* Two instances of different tenants were visited and reported.
C1_Witness ==
    /\ pc = "done"
    /\ Len(instance_data) = 2
    /\ Len(report) = 2
    /\ report[1].environment_id # report[2].environment_id

\* C2 as claimed: every name reported for a flagged instance contains the
\* identifier of a tenant of interest other than the instance's own.
C2_AsClaimed ==
    \A j \in 1..Len(report) : \A k \in 1..Len(report[j].names) :
        \E u \in environment_ids :
            u # report[j].environment_id /\ IsSubstring(u, report[j].names[k])

\* C3: analyze() ends EXPLOITED exactly when an instance was reported, count is
\* the number of reported instances, which are the instances that read a
\* foreign name; with no such instance it ends NOT_EXPLOITED.
C3_VerdictIffFlagged ==
    /\ pc \in {"correlate", "done"} => count = Len(report)
    /\ pc = "done" =>
          /\ outcome \in {"EXPLOITED", "NOT_EXPLOITED"}
          /\ (outcome = "EXPLOITED") <=> (Len(report) >= 1)
          /\ count = Cardinality({i \in 1..Len(instance_data) :
                                     ReadsForeignName(instance_data[i].environment_id)})
          /\ (\A i \in 1..Len(instance_data) :
                 ~ReadsForeignName(instance_data[i].environment_id))
                => outcome = "NOT_EXPLOITED"

\* analyze() ended EXPLOITED with two flagged instances.
C3_Witness ==
    /\ pc = "done"
    /\ outcome = "EXPLOITED"
    /\ count = 2

\* A launch record that carries everything a fact needs.
C4_Complete(ev) ==
    /\ ev.shape = "instance"
    /\ ev.instanceId # Null
    /\ ev.iamInstanceProfile = Object
    /\ ev.arn # Null
    /\ ev.tagSet = Object
    /\ \E k \in 1..Len(ev.tags) : ev.tags[k].key = TAG_KEY
\* v is the value of the first tag of ev with the environment-id key.
C4_IsFirstTagValue(ev, v) ==
    \E k \in 1..Len(ev.tags) :
        /\ ev.tags[k].key = TAG_KEY
        /\ ev.tags[k].has_value
        /\ ev.tags[k].value = v
        /\ \A j \in 1..(k - 1) : ev.tags[j].key # TAG_KEY

\* C4: every stored launch fact has a role ARN and a non-empty tenant id and
\* comes from a record that carries an instanceId, a profile with an arn and the
\* tenant tag, whose arn and first tenant tag value it holds unchanged; so a
\* record lacking one of them adds no entry.
C4_OnlyCompleteFacts ==
    pc = "extract" =>
        \A n \in 1..Len(instance_data) :
            LET e == instance_data[n]
            IN /\ e.profile_arn # Null
               /\ e.environment_id # EmptyString
               /\ \E i \in 1..Len(events) :
                     /\ C4_Complete(events[i])
                     /\ events[i].instanceId = e.instance_id
                     /\ events[i].arn = e.profile_arn
                     /\ C4_IsFirstTagValue(events[i], e.environment_id)

\* A record with two tenant tags was stored next to a record without a profile
\* block, which left no entry.
C4_Witness ==
    /\ pc = "extract"
    /\ Len(events) = 2
    /\ Len(instance_data) = 1
    /\ \E i \in 1..2 : events[i].shape = "instance" /\ events[i].iamInstanceProfile = Null
    /\ \E i \in 1..2 :
          /\ Len(events[i].tags) = 2
          /\ events[i].tags[1].key = TAG_KEY
          /\ events[i].tags[2].key = TAG_KEY
          /\ instance_data[1].environment_id = events[i].tags[1].value

\* The records find_assume_role_events can read through.
C5_WellFormed(ev) ==
    /\ ev.shape = "event"
    /\ ev.eventName # Absent
    /\ ev.eventName = "AssumeRole" =>
          /\ ev.requestParameters = Object
          /\ ev.roleArn # Absent
          /\ ev.responseElements = Object
          /\ ev.credentials = Object
          /\ ev.sessionToken # Absent
          /\ ev.accessKeyId # Absent
RECURSIVE C5_AssumeResult(_, _)
C5_AssumeResult(evs, arns) ==
    IF evs = <<>> THEN EmptyDict
    ELSE LET n == Len(evs)
             before == C5_AssumeResult(SubSeq(evs, 1, n - 1), arns)
             r == FindAssumeRole(evs[n], arns)
         IN IF r.result = "store"
               THEN MapSet(before, r.session_id, r.access_key_id)
               ELSE before

\* C5 as claimed: a malformed record never aborts an extractor, and the result
\* is the result on the records that are well formed.
C5_AsClaimed ==
    /\ outcome \notin {"TypeError", "AttributeError"}
    /\ pc = "assume" =>
          assume_role_data = C5_AssumeResult(SelectSeq(events, C5_WellFormed), profile_arns)

\* The records that are GetParameter reads of a name containing t.
C6_ReadsOf(t) ==
    LET Test(ev) == /\ ev.shape = "event"
                    /\ ev.eventName = "GetParameter"
                    /\ ev.requestParameters = Object
                    /\ ev.has_name
                    /\ IsSubstring(t, ev.name)
    IN SelectSeq(events, Test)

\* C6: after every record, the index list of each tenant identifier of interest
\* is the names, in event order and with duplicates, of the GetParameter records
\* read so far whose name contains it, and the index has no other key.
C6_IndexIsSubsequence ==
    pc = "getparam" =>
        /\ DOMAIN parameter_data \subseteq environment_ids
        /\ \A t \in environment_ids :
              /\ Len(IndexList(t)) = Len(C6_ReadsOf(t))
              /\ \A k \in 1..Len(IndexList(t)) : IndexList(t)[k] = C6_ReadsOf(t)[k].name

\* Two reads, the second of another name that fans out to two tenants.
C6_Witness ==
    /\ pc = "getparam"
    /\ Len(events) = 2
    /\ \E t \in environment_ids : \E u \in environment_ids :
          /\ t # u
          /\ Len(IndexList(t)) = 2
          /\ IndexList(t)[1] # IndexList(t)[2]
          /\ Len(IndexList(u)) = 1
          /\ IndexList(u)[1] = IndexList(t)[2]

\* C7 as claimed: the run reports that the vulnerability was not exploited only
\* when all three collections are present and non-empty.
C7_AsClaimed ==
    outcome = "NOT_EXPLOITED" => \A f \in Files : files[f] = "nonempty"

\* C8: after every record, instance_data has one entry per instanceId that some
\* record read so far yields a fact for, and it is the fact of the last such
\* record; records that are skipped change nothing.
C8_LastValidFactWins ==
    pc = "extract" =>
        /\ \A m \in 1..Len(instance_data) : \A n \in 1..Len(instance_data) :
              instance_data[m].instance_id = instance_data[n].instance_id => m = n
        /\ \A id \in InstanceIds :
              LET valid == {i \in 1..Len(events) :
                               /\ ExtractRunInstance(events[i]).result = "store"
                               /\ events[i].instanceId = id}
              IN IF valid = {}
                    THEN id \notin DictKeys(instance_data)
                    ELSE LET last == CHOOSE i \in valid : \A j \in valid : j <= i
                         IN \E n \in 1..Len(instance_data) :
                               instance_data[n] = Entry(ExtractRunInstance(events[last]))

\* Two records of one instance with different facts: the second is kept.
C8_Witness ==
    /\ pc = "extract"
    /\ Len(events) = 2
    /\ ExtractRunInstance(events[1]).result = "store"
    /\ ExtractRunInstance(events[2]).result = "store"
    /\ events[1].instanceId = events[2].instanceId
    /\ Entry(ExtractRunInstance(events[1])) # Entry(ExtractRunInstance(events[2]))
    /\ Len(instance_data) = 1

\* C9: every index key is the tenant of a launch fact and has a non-empty list
\* of names that all contain it; an instance is reported only when one
\* GetParameter record names a parameter containing both its tenant and another
\* tenant identifier of interest.
C9_IndexNamesContainTenant ==
    /\ \A t \in DOMAIN parameter_data :
          /\ \E n \in 1..Len(instance_data) : instance_data[n].environment_id = t
          /\ parameter_data[t] # <<>>
          /\ \A k \in 1..Len(parameter_data[t]) : IsSubstring(t, parameter_data[t][k])
    /\ pc \in {"correlate", "done"} =>
          \A j \in 1..Len(report) :
              \E i \in 1..Len(events) : \E u \in environment_ids :
                  /\ events[i].eventName = "GetParameter"
                  /\ events[i].has_name
                  /\ u # report[j].environment_id
                  /\ IsSubstring(report[j].environment_id, events[i].name)
                  /\ IsSubstring(u, events[i].name)

\* An instance was reported although one of the reads names only the other
\* tenant.
C9_Witness ==
    /\ pc = "done"
    /\ Len(report) >= 1
    /\ \E i \in 1..Len(events) : \E u \in environment_ids :
          /\ events[i].eventName = "GetParameter"
          /\ events[i].has_name
          /\ IsSubstring(u, events[i].name)
          /\ ~IsSubstring(report[1].environment_id, events[i].name)

====
